---- MODULE Spec2Model ----
(***************************************************************************)
(* A model of ticktickrules (rules.go): the cron-like field grammar        *)
(* (parseRuleItem), the range validation and construction of a Rule        *)
(* (validateItemsRange, NewRule), the match predicate (Matches) and the    *)
(* next-occurrence search (roundUp, naiveNextFrom).                        *)
(*                                                                         *)
(* Field texts are TLA+ strings, read character by character with SubSeq.  *)
(* An instant is a record [day, hour, minute, second] in UTC, day counted  *)
(* from 2000-01-01 (a Saturday); sub-second parts are not modelled apart   *)
(* from the second itself, which plays the same role in every comparison   *)
(* the code makes.                                                         *)
(***************************************************************************)
EXTENDS Integers, Sequences, FiniteSets, TLC

VARIABLES pc, texts, rule, err, originalFrom, from, numIterations, result,
          path, matchTests, chain, probe, matched, item, maxsumIn, parsed

vars == <<pc, texts, rule, err, originalFrom, from, numIterations, result,
          path, matchTests, chain, probe, matched, item, maxsumIn, parsed>>

(***************************************************************************)
(* Bounds of the model.                                                    *)
(***************************************************************************)
\* longest field text handed to parseRuleItem on its own
MaxLen == 5
\* largest step N of the "*/N" inputs handed to NewRule field by field
MaxStep == 61
\* seconds component of a starting instant ranges over 0..MaxSecond
MaxSecond == 1
\* number of chained calls NextFrom(NextFrom(...)) after the first
MaxChain == 2
\* last day (counted from 2000-01-01) the claims' calendar scans look at
HorizonDays == 3660

(***************************************************************************)
(* Text helpers: strconv.Atoi, strings.Split and the two regular           *)
(* expressions.                                                            *)
(***************************************************************************)
Digits == {"0", "1", "2", "3", "4", "5", "6", "7", "8", "9"}

Char(s, i) == SubSeq(s, i, i)

DigitVal(c) ==
    CASE c = "0" -> 0 [] c = "1" -> 1 [] c = "2" -> 2 [] c = "3" -> 3
      [] c = "4" -> 4 [] c = "5" -> 5 [] c = "6" -> 6 [] c = "7" -> 7
      [] c = "8" -> 8 [] c = "9" -> 9

AllDigits(s) == Len(s) > 0 /\ \A i \in 1..Len(s) : Char(s, i) \in Digits

RECURSIVE DecimalValue(_)
DecimalValue(s) ==
    IF Len(s) = 0 THEN 0
    ELSE 10 * DecimalValue(SubSeq(s, 1, Len(s) - 1)) + DigitVal(Char(s, Len(s)))

\* strconv.Atoi: an optional sign, then one or more decimal digits.  (The
\* overflow error of Atoi needs 19 digits or more, beyond any text modelled.)
Atoi(s) ==
    LET signed == Len(s) > 0 /\ Char(s, 1) \in {"+", "-"}
        body   == IF signed THEN SubSeq(s, 2, Len(s)) ELSE s
    IN  IF ~AllDigits(body) THEN [ok |-> FALSE, v |-> 0]
        ELSE [ok |-> TRUE,
              v  |-> IF signed /\ Char(s, 1) = "-" THEN 0 - DecimalValue(body)
                     ELSE DecimalValue(body)]

\* strings.Split(s, "/"): the pieces between the separators, empty ones kept
RECURSIVE SplitFrom(_, _, _)
SplitFrom(s, i, start) ==
    IF i > Len(s) THEN <<SubSeq(s, start, Len(s))>>
    ELSE IF Char(s, i) = "/"
         THEN <<SubSeq(s, start, i - 1)>> \o SplitFrom(s, i + 1, i + 1)
         ELSE SplitFrom(s, i + 1, start)

Split(s) == SplitFrom(s, 1, 1)

\* ^\*/\d+$
ruleType1(r) ==
    /\ Len(r) >= 3
    /\ SubSeq(r, 1, 2) = "*/"
    /\ AllDigits(SubSeq(r, 3, Len(r)))

\* ^\d+(?:/\d+)+$
ruleType2(r) ==
    LET parts == Split(r)
    IN  /\ Len(parts) >= 2
        /\ \A i \in 1..Len(parts) : AllDigits(parts[i])

(***************************************************************************)
(* Errors.  A Go error is its message; the model keeps the message's       *)
(* parts: which message (kind), the quoted rule item, the field name a     *)
(* range error is prefixed with by NewRule, and the two numbers of a       *)
(* range message.                                                          *)
(***************************************************************************)
NoError == [kind |-> "nil", field |-> "", item |-> "", value |-> 0, bound |-> 0]

ItemError(kind, r) ==
    [kind |-> kind, field |-> "", item |-> r, value |-> 0, bound |-> 0]

RangeError(kind, v, b) ==
    [kind |-> kind, field |-> "", item |-> "", value |-> v, bound |-> b]

(***************************************************************************)
(* parseRuleItem                                                           *)
(***************************************************************************)
\* the "*/N" generation loop: append, add, stop once the sum reaches maxsum
RECURSIVE StepLoop(_, _, _, _)
StepLoop(out, sum, v, maxsum) ==
    LET out2 == Append(out, sum)
        sum2 == sum + v
    IN  IF sum2 >= maxsum THEN out2 ELSE StepLoop(out2, sum2, v, maxsum)

\* the first comparison value of the list loop (lst := 0)
ListStart == 0

\* the "N/M/O" loop over the parts, from part i on, lst the previous value
RECURSIVE ListLoop(_, _, _, _, _)
ListLoop(r, parts, i, lst, out) ==
    IF i > Len(parts) THEN [out |-> out, err |-> NoError]
    ELSE LET a == Atoi(parts[i])
         IN  IF ~a.ok THEN [out |-> <<>>, err |-> ItemError("not_parsed", r)]
             ELSE IF a.v <= lst
                  THEN [out |-> <<>>, err |-> ItemError("bad_ordering", r)]
                  ELSE ListLoop(r, parts, i + 1, a.v, Append(out, a.v))

parseRuleItem(r, maxsum) ==
    IF r = "*" THEN [out |-> <<>>, err |-> NoError]
    ELSE IF ruleType1(r)
    THEN LET a == Atoi(Split(r)[2])
         IN  IF ~a.ok THEN [out |-> <<>>, err |-> ItemError("not_parsed", r)]
             ELSE IF a.v = 0 THEN [out |-> <<>>, err |-> ItemError("zero", r)]
             ELSE IF a.v >= maxsum
                  THEN [out |-> <<>>, err |-> ItemError("not_divide", r)]
             ELSE [out |-> StepLoop(<<>>, 0, a.v, maxsum), err |-> NoError]
    ELSE IF ruleType2(r)
    THEN ListLoop(r, Split(r), 1, ListStart, <<>>)
    ELSE LET a == Atoi(r)
         IN  IF ~a.ok THEN [out |-> <<>>, err |-> ItemError("not_supported", r)]
             ELSE [out |-> <<a.v>>, err |-> NoError]

(***************************************************************************)
(* The specification of parseRuleItem on its own: every text of at most    *)
(* MaxLen characters over Alphabet, with each modulus NewRule passes.      *)
(***************************************************************************)
Alphabet == {"*", "/", "-", "0", "1", "2", "x"}

RECURSIVE TextsOfLen(_)
TextsOfLen(n) ==
    IF n = 0 THEN {""}
    ELSE {s \o c : s \in TextsOfLen(n - 1), c \in Alphabet}

TextsUpTo(n) == UNION {TextsOfLen(k) : k \in 0..n}

Moduli == {60, 24, 7, 31}

NoTime == [day |-> 0 - 1, hour |-> 0, minute |-> 0, second |-> 0]
NoRule == [nil |-> TRUE]
NoTexts == [minute |-> "", hour |-> "", dayOfMonth |-> "", month |-> "",
            dayOfWeek |-> ""]
NoParse == [out |-> <<>>, err |-> NoError]

Idle ==
    /\ rule = NoRule /\ err = NoError
    /\ originalFrom = NoTime /\ from = NoTime /\ numIterations = 0
    /\ result = NoTime /\ path = "none" /\ matchTests = 0 /\ chain = 0
    /\ probe = NoTime /\ matched = FALSE

InitParse ==
    /\ pc = "parse"
    /\ item \in TextsUpTo(MaxLen)
    /\ maxsumIn \in Moduli
    /\ parsed = NoParse
    /\ texts = NoTexts
    /\ Idle

ParseCall ==
    /\ pc = "parse"
    /\ parsed' = parseRuleItem(item, maxsumIn)
    /\ pc' = "parsed"
    /\ UNCHANGED <<texts, rule, err, originalFrom, from, numIterations, result,
                   path, matchTests, chain, probe, matched, item, maxsumIn>>

NextParse == ParseCall

SpecParse == InitParse /\ [][NextParse]_vars

(***************************************************************************)
(* validateItemsRange, doesMatch                                           *)
(***************************************************************************)
RECURSIVE RangeLoop(_, _, _, _)
RangeLoop(items, k, min, max) ==
    IF k > Len(items) THEN NoError
    ELSE IF items[k] > max THEN RangeError("gt", items[k], max)
    ELSE IF items[k] < min THEN RangeError("lt", items[k], min)
    ELSE RangeLoop(items, k + 1, min, max)

\* a validator that forgets the lower bound
validateItemsRange_NoMin(items, min, max) ==
    IF \E k \in 1..Len(items) : items[k] > max
    THEN RangeError("gt", items[CHOOSE k \in 1..Len(items) : items[k] > max], max)
    ELSE NoError

validateItemsRange(items, min, max) == RangeLoop(items, 1, min, max)

doesMatch(v, vs) == \E k \in 1..Len(vs) : vs[k] = v

(***************************************************************************)
(* NewRule.  The five blocks of the function are the same three steps      *)
(* (parse, validate, store) with the arguments of FieldArgs, run in the    *)
(* order CheckOrder; the first error ends the call with a nil Rule.        *)
(***************************************************************************)
Fields == {"minute", "hour", "dayOfMonth", "month", "dayOfWeek"}

\* the order of the five blocks in the body of NewRule
CheckOrder_Signature == <<"minute", "hour", "dayOfMonth", "month", "dayOfWeek">>

CheckOrder == <<"minute", "hour", "dayOfWeek", "dayOfMonth", "month">>

\* per field: the modulus handed to parseRuleItem, the range handed to
\* validateItemsRange, and the name the range error is prefixed with
FieldArgs(f) ==
    CASE f = "minute"     -> [maxsum |-> 60, min |-> 0, max |-> 59, name |-> "Minute"]
      [] f = "hour"       -> [maxsum |-> 24, min |-> 0, max |-> 23, name |-> "Hour"]
      [] f = "dayOfWeek"  -> [maxsum |-> 7,  min |-> 0, max |-> 7,  name |-> "Day of Week"]
      [] f = "dayOfMonth" -> [maxsum |-> 31, min |-> 1, max |-> 31, name |-> "Day of Month"]
      [] f = "month"      -> [maxsum |-> 24, min |-> 1, max |-> 12, name |-> "Month"]

\* fmt.Errorf("<Field> rule invalid: %s", err.Error())
WrapField(name, e) == [e EXCEPT !.field = name]

\* one block of NewRule: a parse error is returned as it is, a range error
\* is returned prefixed with the field's name
CheckField(f, text) ==
    LET a == FieldArgs(f)
        p == parseRuleItem(text, a.maxsum)
    IN  IF p.err # NoError THEN [items |-> <<>>, err |-> p.err]
        ELSE LET v == validateItemsRange(p.out, a.min, a.max)
             IN  IF v # NoError
                 THEN [items |-> <<>>, err |-> WrapField(a.name, v)]
                 ELSE [items |-> p.out, err |-> NoError]

RECURSIVE NewRuleFrom(_, _, _)
NewRuleFrom(t, k, output) ==
    IF k > Len(CheckOrder) THEN [rule |-> output, err |-> NoError]
    ELSE LET f == CheckOrder[k]
             c == CheckField(f, t[f])
         IN  IF c.err # NoError THEN [rule |-> NoRule, err |-> c.err]
             ELSE NewRuleFrom(t, k + 1, [output EXCEPT ![f] = c.items])

\* output := new(Rule); the xxxRule strings of the struct are the texts
NewRule(t) ==
    NewRuleFrom(t, 1, [minute |-> <<>>, hour |-> <<>>, dayOfWeek |-> <<>>,
                       dayOfMonth |-> <<>>, month |-> <<>>, text |-> t])

(***************************************************************************)
(* The specification of NewRule: every combination of RuleTexts in the     *)
(* five fields, and every "*/N" with N in 0..MaxStep in one field with     *)
(* "*" in the others.                                                      *)
(***************************************************************************)
RuleTexts == {"*", "*/2", "*/0", "7", "0", "32", "1/2", "2/1", "x", "-1"}

DigitText(d) ==
    CASE d = 0 -> "0" [] d = 1 -> "1" [] d = 2 -> "2" [] d = 3 -> "3"
      [] d = 4 -> "4" [] d = 5 -> "5" [] d = 6 -> "6" [] d = 7 -> "7"
      [] d = 8 -> "8" [] d = 9 -> "9"

RECURSIVE Itoa(_)
Itoa(n) == IF n < 10 THEN DigitText(n) ELSE Itoa(n \div 10) \o DigitText(n % 10)

AllStars == [f \in Fields |-> "*"]

SteppedInputs ==
    {[AllStars EXCEPT ![f] = "*/" \o Itoa(n)] : f \in Fields, n \in 0..MaxStep}

RuleInputs == [Fields -> RuleTexts] \cup SteppedInputs

InitRule ==
    /\ pc = "new"
    /\ texts \in RuleInputs
    /\ item = "" /\ maxsumIn = 0 /\ parsed = NoParse
    /\ Idle

NewRuleCall ==
    /\ pc = "new"
    /\ LET n == NewRule(texts)
       IN  /\ rule' = n.rule
           /\ err' = n.err
           /\ pc' = IF n.err = NoError THEN "ready" ELSE "failed"
    /\ UNCHANGED <<texts, originalFrom, from, numIterations, result, path,
                   matchTests, chain, probe, matched, item, maxsumIn, parsed>>

NextRule == NewRuleCall

SpecRule == InitRule /\ [][NextRule]_vars

(***************************************************************************)
(* Instants and the calendar (package time, UTC).                          *)
(***************************************************************************)
\* the civil date of a day number: [year, month, day]; 730425 days lie
\* between 0000-03-01 and 2000-01-01 in the proleptic Gregorian calendar
CivilFromDay(d) ==
    LET z   == d + 730425
        era == z \div 146097
        doe == z - era * 146097
        yoe == (doe - doe \div 1460 + doe \div 36524 - doe \div 146096) \div 365
        doy == doe - (365 * yoe + yoe \div 4 - yoe \div 100)
        mp  == (5 * doy + 2) \div 153
        dd  == doy - (153 * mp + 2) \div 5 + 1
        mm  == IF mp < 10 THEN mp + 3 ELSE mp - 9
    IN  [year  |-> yoe + era * 400 + (IF mm <= 2 THEN 1 ELSE 0),
         month |-> mm, day |-> dd]

\* t.Month(), t.Day(), t.Weekday() (Sunday = 0; 2000-01-01 is a Saturday)
MonthOf(t) == CivilFromDay(t.day).month
DayOf(t) == CivilFromDay(t.day).day
WeekdayOf(t) == (t.day + 6) % 7

\* time.Date(from.Year(), from.Month(), from.Day(), h, m, 0, 0, loc)
DateOn(t, h, m) == [day |-> t.day, hour |-> h, minute |-> m, second |-> 0]

\* t.Add(24 * time.Hour)
AddDay(t) == [t EXCEPT !.day = t.day + 1]

\* t.Truncate(time.Minute)
TruncateMinute(t) == [t EXCEPT !.second = 0]

\* a.Before(b)
Before(a, b) ==
    \/ a.day < b.day
    \/ a.day = b.day /\ a.hour < b.hour
    \/ a.day = b.day /\ a.hour = b.hour /\ a.minute < b.minute
    \/ a.day = b.day /\ a.hour = b.hour /\ a.minute = b.minute
       /\ a.second < b.second

\* the day number standing for time.Unix(1<<62, 0), later than every day
\* the model reaches
FarFutureDay == 2000000000

FarFuture == [day |-> FarFutureDay, hour |-> 0, minute |-> 0, second |-> 0]

(***************************************************************************)
(* Matches, roundUp                                                        *)
(***************************************************************************)
Matches(r, t) ==
    /\ Len(r.month) > 0 => doesMatch(MonthOf(t), r.month)
    /\ Len(r.dayOfWeek) > 0 => doesMatch(WeekdayOf(t), r.dayOfWeek)
    /\ Len(r.dayOfMonth) > 0 => doesMatch(DayOf(t), r.dayOfMonth)
    /\ Len(r.hour) > 0 => doesMatch(t.hour, r.hour)
    /\ Len(r.minute) > 0 => doesMatch(t.minute, r.minute)

naiveMaxIterations == 31 * 8 * 12

roundUp(current, items) ==
    IF Len(items) = 0 THEN current + 1
    ELSE IF \E k \in 1..Len(items) : items[k] > current
    THEN items[CHOOSE k \in 1..Len(items) :
                 /\ items[k] > current
                 /\ \A j \in 1..(k - 1) : ~(items[j] > current)]
    ELSE items[1]

(***************************************************************************)
(* naiveNextFrom, in two parts: the head of the function up to the loop    *)
(* (one step), and the day-stepping loop (one step per iteration).         *)
(***************************************************************************)
\* if nextMinute >= 60 { nextMinute = 0 }
NextMinuteOf(r, t) ==
    LET m == roundUp(t.minute, r.minute) IN IF m >= 60 THEN 0 ELSE m

\* if nextHour >= 24 { nextHour = 0 }
NextHourOf(r, t) ==
    LET h == roundUp(t.hour, r.hour) IN IF h >= 24 THEN 0 ELSE h

\* a fast path that trusts the minute alone
FastPath_NoMatch(r, t, cand) == cand.minute > t.minute

\* the same-hour return: the minute increased and the candidate matches
FastPath(r, t, cand) == cand.minute > t.minute /\ Matches(r, cand)

\* the candidate the loop starts from
LoopStart(r, t) ==
    LET cand1 == DateOn(t, t.hour, NextMinuteOf(r, t))
        cand2 == DateOn(cand1, NextHourOf(r, t), cand1.minute)
    IN  IF Before(cand2, t) THEN AddDay(cand2) ELSE cand2

\* a cap test that lets one more iteration through
CapExceeded_OffByOne(n) == n > naiveMaxIterations + 1

\* if numIterations > naiveMaxIterations
CapExceeded(n) == n > naiveMaxIterations

\* lines 245-270 of the call r.naiveNextFrom(t)
NaiveNextFromHead(t) ==
    LET cand1 == DateOn(t, t.hour, NextMinuteOf(rule, t))
    IN  /\ originalFrom' = t
        /\ numIterations' = 0
        /\ matchTests' = 0
        /\ IF FastPath(rule, t, cand1)
           THEN /\ pc' = "done"
                /\ path' = "fast"
                /\ from' = cand1
                /\ result' = cand1
           ELSE /\ pc' = "loop"
                /\ path' = "none"
                /\ from' = LoopStart(rule, t)
                /\ result' = NoTime

(***************************************************************************)
(* The specification of the search: a Rule built from one of SearchRules,  *)
(* then either Matches on a probe instant, or NextFrom on a starting       *)
(* instant, followed by up to MaxChain calls on the previous result.       *)
(***************************************************************************)
RuleText(mi, h, dom, mo, dow) ==
    [minute |-> mi, hour |-> h, dayOfMonth |-> dom, month |-> mo,
     dayOfWeek |-> dow]

SearchRules ==
    { RuleText("*", "*", "*", "*", "*"),
      RuleText("*/25", "*/2", "*", "*", "*"),
      RuleText("*", "*", "31", "*", "*"),
      RuleText("*", "*", "31", "2", "*"),
      RuleText("16", "1", "*", "*", "*"),
      RuleText("*", "5", "*", "*", "*"),
      RuleText("*", "*", "1", "1", "5"),
      RuleText("*", "*", "*", "*", "7"),
      RuleText("*", "*", "*", "*", "0") }

\* 2000-01-01 (Saturday) and 2000-02-28
FromDays == {0, 58}
FromHours == {1, 3, 23}
FromMinutes == {0, 16, 30, 59}

FromTimes ==
    {[day |-> d, hour |-> h, minute |-> m, second |-> s] :
        d \in FromDays, h \in FromHours, m \in FromMinutes, s \in 0..MaxSecond}

\* 2000-01-01 (Saturday), 2000-01-02 (Sunday)
ProbeTimes ==
    {[day |-> d, hour |-> h, minute |-> m, second |-> 0] :
        d \in {0, 1}, h \in {1, 5}, m \in {0, 16}}

Init ==
    /\ pc = "new"
    /\ texts \in SearchRules
    /\ item = "" /\ maxsumIn = 0 /\ parsed = NoParse
    /\ Idle

\* r.Matches(t)
MatchesCall ==
    /\ pc = "ready"
    /\ \E t \in ProbeTimes :
          /\ probe' = t
          /\ matched' = Matches(rule, t)
    /\ pc' = "matched"
    /\ UNCHANGED <<texts, rule, err, originalFrom, from, numIterations, result,
                   path, matchTests, chain, item, maxsumIn, parsed>>

\* r.NextFrom(t)
NextFromCall ==
    /\ pc = "ready"
    /\ \E t \in FromTimes : NaiveNextFromHead(t)
    /\ UNCHANGED <<texts, rule, err, chain, probe, matched, item, maxsumIn,
                   parsed>>

\* one iteration of the loop of naiveNextFrom
LoopStep ==
    /\ pc = "loop"
    /\ matchTests' = matchTests + 1
    /\ IF Matches(rule, from)
       THEN /\ result' = TruncateMinute(from)
            /\ pc' = "done"
            /\ path' = "loop"
            /\ UNCHANGED <<from, numIterations>>
       ELSE /\ from' = AddDay(from)
            /\ numIterations' = numIterations + 1
            /\ IF CapExceeded(numIterations + 1)
               THEN /\ result' = FarFuture
                    /\ pc' = "done"
                    /\ path' = "cap"
               ELSE UNCHANGED <<result, pc, path>>
    /\ UNCHANGED <<texts, rule, err, originalFrom, chain, probe, matched, item,
                   maxsumIn, parsed>>

\* r.NextFrom(previous result), for a result that is an instant of the calendar
ChainCall ==
    /\ pc = "done"
    /\ chain < MaxChain
    /\ result # FarFuture
    /\ NaiveNextFromHead(result)
    /\ chain' = chain + 1
    /\ UNCHANGED <<texts, rule, err, probe, matched, item, maxsumIn, parsed>>

Next == NewRuleCall \/ MatchesCall \/ NextFromCall \/ LoopStep \/ ChainCall

Spec == Init /\ [][Next]_vars

(***************************************************************************)
(* Vocabulary of the properties.                                           *)
(***************************************************************************)
Returned == pc = "done"

Constructed == pc \in {"ready", "failed"}

\* the day-of-month, month and day-of-week fields of r accept day d
DayMatches(r, d) ==
    LET t == [day |-> d, hour |-> 0, minute |-> 0, second |-> 0]
    IN  /\ Len(r.month) > 0 => doesMatch(MonthOf(t), r.month)
        /\ Len(r.dayOfWeek) > 0 => doesMatch(WeekdayOf(t), r.dayOfWeek)
        /\ Len(r.dayOfMonth) > 0 => doesMatch(DayOf(t), r.dayOfMonth)

\* some whole-minute instant u with a < u < b satisfies r
MatchBetween(r, a, b) ==
    \E d \in a.day..b.day :
        /\ DayMatches(r, d)
        /\ \E h \in 0..23 : \E m \in 0..59 :
              LET u == [day |-> d, hour |-> h, minute |-> m, second |-> 0]
              IN  Before(a, u) /\ Before(u, b) /\ Matches(r, u)

\* some whole-minute instant after a, up to the end of day HorizonDays,
\* satisfies r
MatchAfter(r, a) ==
    \E d \in a.day..HorizonDays :
        /\ DayMatches(r, d)
        /\ \E h \in 0..23 : \E m \in 0..59 :
              LET u == [day |-> d, hour |-> h, minute |-> m, second |-> 0]
              IN  Before(a, u) /\ Matches(r, u)

\* the longest a month gets
LongestMonth(mo) ==
    IF mo = 2 THEN 29 ELSE IF mo \in {4, 6, 9, 11} THEN 30 ELSE 31

\* no date of the calendar, on whatever weekday it falls, is accepted by r
Unsatisfiable(r) ==
    ~\E mo \in 1..12 : \E d \in 1..LongestMonth(mo) : \E wd \in 0..6 :
        /\ Len(r.month) > 0 => doesMatch(mo, r.month)
        /\ Len(r.dayOfMonth) > 0 => doesMatch(d, r.dayOfMonth)
        /\ Len(r.dayOfWeek) > 0 => doesMatch(wd, r.dayOfWeek)

(***************************************************************************)
(* C1: the instant NextFrom returns is strictly later than the instant it  *)
(* was given, whether or not that instant has seconds or satisfies the     *)
(* rule, so a chain of calls never repeats a result.                       *)
(* Fails: with minute "16" and hour "1", NextFrom(01:16:00) is 01:16:00.   *)
(***************************************************************************)
C1_StrictlyLater == Returned => Before(originalFrom, result)

(***************************************************************************)
(* C2: whatever NextFrom returns is the far-future sentinel or an instant  *)
(* the rule matches, on the same-hour return and on the loop's return.     *)
(***************************************************************************)
C2_ResultMatches == Returned => (result = FarFuture \/ Matches(rule, result))

C2_Witness ==
    /\ Returned
    /\ path = "loop"
    /\ texts.dayOfMonth = "31"
    /\ numIterations > 0
    /\ result # FarFuture
    /\ Matches(rule, result)

(***************************************************************************)
(* C3: a non-sentinel result of NextFrom(from) is the next occurrence: no  *)
(* whole-minute instant strictly between from and the result matches.      *)
(* Fails: with hour "5" and the rest "*", NextFrom(03:30) is 05:31 though  *)
(* 05:00 matches.                                                          *)
(***************************************************************************)
C3_NextOccurrence ==
    (Returned /\ result # FarFuture) => ~MatchBetween(rule, originalFrom, result)

(***************************************************************************)
(* C4: NextFrom terminates: the loop tests Matches at most                 *)
(* naiveMaxIterations + 1 = 2977 times, never runs past the cap, and for   *)
(* a rule no instant satisfies the call returns the sentinel.              *)
(***************************************************************************)
C4_BoundedSearch ==
    /\ naiveMaxIterations + 1 = 2977
    /\ matchTests <= naiveMaxIterations + 1
    /\ pc = "loop" => numIterations <= naiveMaxIterations
    /\ (Returned /\ Unsatisfiable(rule)) => result = FarFuture

C4_Witness ==
    /\ Returned
    /\ texts.dayOfMonth = "31" /\ texts.month = "2"
    /\ Unsatisfiable(rule)
    /\ result = FarFuture
    /\ matchTests = naiveMaxIterations + 1

(***************************************************************************)
(* C5: the cap is large enough: whenever some instant after the starting   *)
(* instant satisfies the rule, NextFrom returns a match, not the sentinel. *)
(* Fails: day-of-month 1, month 1, day-of-week 5 from 2000-01-01 returns   *)
(* the sentinel though 2010-01-01 is a Friday.                             *)
(***************************************************************************)
C5_SentinelOnlyIfUnsatisfiable ==
    (Returned /\ result = FarFuture) => ~MatchAfter(rule, originalFrom)

(***************************************************************************)
(* C9: day-of-week 7 is Sunday, like 0: NewRule accepts "7", and the Rule  *)
(* matches exactly what the same Rule with day-of-week "0" matches.        *)
(* Fails: the Rule with "7" matches no Sunday (and no other day).          *)
(***************************************************************************)
C9_SevenIsSunday ==
    texts.dayOfWeek = "7" =>
        /\ pc # "failed"
        /\ pc = "matched" =>
              matched = Matches(NewRule([texts EXCEPT !.dayOfWeek = "0"]).rule,
                                probe)

(***************************************************************************)
(* Vocabulary of the properties of NewRule and parseRuleItem.              *)
(***************************************************************************)
\* the legal range of each field, as documented
LegalRange(f) ==
    CASE f = "minute"     -> 0..59
      [] f = "hour"       -> 0..23
      [] f = "dayOfMonth" -> 1..31
      [] f = "month"      -> 1..12
      [] f = "dayOfWeek"  -> 0..7

\* the modulus of each field, as documented
LegalModulus(f) ==
    CASE f = "minute"     -> 60
      [] f = "hour"       -> 24
      [] f = "dayOfMonth" -> 31
      [] f = "month"      -> 12
      [] f = "dayOfWeek"  -> 7

\* the text of field f parses, to a value outside the field's range
ParsesOutOfRange(f, text) ==
    LET p == parseRuleItem(text, FieldArgs(f).maxsum)
    IN  /\ p.err = NoError
        /\ \E k \in 1..Len(p.out) : p.out[k] \notin LegalRange(f)

\* what is wrong with the text of field f taken alone: the parse error, or
\* else the range error, or else nothing
Fault(f, text) ==
    LET p == parseRuleItem(text, FieldArgs(f).maxsum)
    IN  IF p.err # NoError THEN p.err
        ELSE validateItemsRange(p.out, FieldArgs(f).min, FieldArgs(f).max)

\* the order in which the fields are checked, and the fields found invalid
CheckedOrder == <<"minute", "hour", "dayOfWeek", "dayOfMonth", "month">>

InvalidAt(t) == {k \in 1..5 : Fault(CheckedOrder[k], t[CheckedOrder[k]]) # NoError}

FirstOf(bad) == CheckedOrder[CHOOSE k \in bad : \A j \in bad : k <= j]

FieldName(f) ==
    CASE f = "minute"     -> "Minute"
      [] f = "hour"       -> "Hour"
      [] f = "dayOfMonth" -> "Day of Month"
      [] f = "month"      -> "Month"
      [] f = "dayOfWeek"  -> "Day of Week"

\* 0, n, 2n, ... below m
RECURSIVE MultiplesBelow(_, _, _)
MultiplesBelow(n, m, k) ==
    IF k * n >= m THEN <<>> ELSE <<k * n>> \o MultiplesBelow(n, m, k + 1)

C8_SteppedUsable ==
    (Constructed /\ texts \in SteppedInputs) =>
        \A f \in Fields : \A n \in 0..MaxStep :
            texts = [AllStars EXCEPT ![f] = "*/" \o Itoa(n)] =>
                IF 1 <= n /\ n < LegalModulus(f)
                THEN /\ pc = "ready"
                     /\ rule[f] = MultiplesBelow(n, LegalModulus(f), 0)
                ELSE pc = "failed"

(***************************************************************************)
(* C10 as stated: when some field text is invalid NewRule returns no Rule  *)
(* and the error of the first invalid field in the order minute, hour,     *)
(* day-of-week, day-of-month, month, prefixed with that field's name,      *)
(* parse errors and range errors alike.                                    *)
(* Fails: a parse error is returned without the field's name.              *)
(***************************************************************************)
C10_FirstErrorNamesField ==
    Constructed =>
        LET bad == InvalidAt(texts)
        IN  bad # {} =>
              LET first == FirstOf(bad)
              IN  /\ pc = "failed"
                  /\ rule = NoRule
                  /\ err.kind = Fault(first, texts[first]).kind
                  /\ err.field = FieldName(first)

(***************************************************************************)
(* C10 amended: when some field text is invalid NewRule returns no Rule    *)
(* and the error of the first invalid field in the order minute, hour,     *)
(* day-of-week, day-of-month, month; a range error is prefixed with that   *)
(* field's name, a parse error is returned as parseRuleItem made it,       *)
(* quoting the field's text and naming no field.                           *)
(***************************************************************************)
C10_FirstErrorReturned ==
    Constructed =>
        LET bad == InvalidAt(texts)
        IN  bad # {} =>
              LET first == FirstOf(bad)
                  fault == Fault(first, texts[first])
              IN  /\ pc = "failed"
                  /\ rule = NoRule
                  /\ IF fault.kind \in {"gt", "lt"}
                     THEN err = [fault EXCEPT !.field = FieldName(first)]
                     ELSE err = fault /\ err.field = "" /\ err.item = texts[first]

C10_Witness ==
    /\ pc = "failed"
    /\ texts.minute = "*/2"
    /\ texts.hour = "7"
    /\ texts.dayOfWeek = "2/1"
    /\ texts.dayOfMonth = "32"
    /\ texts.month = "x"
    /\ FirstOf(InvalidAt(texts)) = "dayOfWeek"
    /\ err.kind = "bad_ordering"
    /\ err.field = ""

(***************************************************************************)
(* C7: for a text that is a list of two or more "/"-separated non-negative *)
(* integers, parseRuleItem succeeds exactly when the integers increase     *)
(* strictly from left to right, the values then being those integers in    *)
(* order; otherwise it fails with the ordering error.                      *)
(* Fails: "0/1" is rejected with the ordering error.                       *)
(***************************************************************************)
ListValues(r) == [i \in 1..Len(Split(r)) |-> Atoi(Split(r)[i]).v]

StrictlyIncreasing(vs) == \A i \in 1..(Len(vs) - 1) : vs[i] < vs[i + 1]

C7_ListIffIncreasing ==
    (pc = "parsed" /\ ruleType2(item)) =>
        IF StrictlyIncreasing(ListValues(item))
        THEN parsed.err = NoError /\ parsed.out = ListValues(item)
        ELSE parsed.err.kind = "bad_ordering"

====
